---- MODULE Spec2Model ----
(***************************************************************************)
(* IoT device backend: the SQLite-backed device store (Database), the      *)
(* Express router of /devices and the process that starts and stops them.  *)
(*                                                                         *)
(* The devices table and SQLite's AUTOINCREMENT counter live in the        *)
(* database file and outlive the process; the connection, the listener    *)
(* and the requests in flight belong to one run of the process.  Each     *)
(* handler of the router is an async function: it runs up to its next     *)
(* await, the awaited SQL statement executes atomically, and the handler  *)
(* resumes with its result.  One action of the model is one such stretch: *)
(* the statement a store call issues together with the handler code that  *)
(* consumes its result, so handlers of different requests interleave      *)
(* between their statements.                                              *)
(***************************************************************************)
EXTENDS Integers, Sequences, FiniteSets, TLC

VARIABLES
    rows,       \* the devices table: id -> row (config held as JSON text)
    seq,        \* sqlite_sequence of the table: the largest id ever assigned
    now,        \* CURRENT_TIMESTAMP, in whole seconds
    tableExists, \* whether the database file holds the devices table
    phase,      \* the process: down, opened, tables, seeding, ready, listening,
                \* closing, failed
    pending,    \* the runs queued on the prepared INSERT of the seeding
    reqs,       \* the requests being handled: slot -> request
    seedOf,     \* history: id -> index in SAMPLE_DEVICES, for rows seeding inserted
    issued,     \* history: the ids the table has assigned, in the order assigned
    conn        \* this.db, the connection to the file: none, open, closing, closed

vars == <<rows, seq, now, tableExists, phase, pending, reqs, seedOf, issued, conn>>

-----------------------------------------------------------------------------
(* Bounds of the model *)

\* the largest id the model lets the table assign
MaxId == 4
\* the last second of the clock
MaxTime == 1
\* the connections requests arrive on
Slots == {1, 2}

-----------------------------------------------------------------------------
(* JSON text.  A config object is a function from keys to JSON scalars     *)
(* (written as their literal text).  A JavaScript string holding JSON is   *)
(* the record [chars |-> tokens], its tokens being "{", then the key and   *)
(* the value of each member, then "}"; '' has no token.                    *)

KeyOrder == <<"brightness", "color", "temperature", "mode", "resolution",
              "night_vision", "locked", "auto_lock">>

EmptyObject == [k \in {} |-> ""]

\* typeof v === 'string'
IsString(v) == DOMAIN v = {"chars"}

RECURSIVE StringifyFrom(_, _)
StringifyFrom(obj, i) ==
    IF i > Len(KeyOrder) THEN <<>>
    ELSE (IF KeyOrder[i] \in DOMAIN obj
            THEN <<KeyOrder[i], obj[KeyOrder[i]]>>
            ELSE <<>>) \o StringifyFrom(obj, i + 1)

\* JSON.stringify(obj)
JSONstringify(obj) == [chars |-> <<"{">> \o StringifyFrom(obj, 1) \o <<"}">>]

SyntaxError == [error |-> "SyntaxError"]

RECURSIVE ParseMembers(_, _, _)
ParseMembers(toks, i, acc) ==
    IF i > Len(toks) THEN SyntaxError
    ELSE IF toks[i] = "}"
        THEN (IF i = Len(toks) THEN [error |-> "", value |-> acc] ELSE SyntaxError)
    ELSE IF i + 1 > Len(toks) \/ toks[i + 1] \in {"{", "}"} THEN SyntaxError
    ELSE ParseMembers(toks, i + 2,
            [k \in DOMAIN acc \cup {toks[i]} |->
                IF k = toks[i] THEN toks[i + 1] ELSE acc[k]])

\* JSON.parse(text): [error |-> "", value |-> object] or a SyntaxError
JSONparse(text) ==
    IF Len(text.chars) = 0 \/ text.chars[1] # "{" THEN SyntaxError
    ELSE ParseMembers(text.chars, 2, EmptyObject)

-----------------------------------------------------------------------------
(* The store: src/unnamed/part_000 (and its minimal twin, src/db.js) *)

DEVICE_STATUS == [ONLINE |-> "online", OFFLINE |-> "offline", ON |-> "on", OFF |-> "off"]

SAMPLE_DEVICES == <<
    [name |-> "Living Room Light", type |-> "light", status |-> DEVICE_STATUS.ON,
     config |-> JSONstringify([brightness |-> "75", color |-> "warm_white"])],
    [name |-> "Smart Thermostat", type |-> "thermostat", status |-> DEVICE_STATUS.ON,
     config |-> JSONstringify([temperature |-> "22", mode |-> "heat"])],
    [name |-> "Security Camera", type |-> "camera", status |-> DEVICE_STATUS.ONLINE,
     config |-> JSONstringify([resolution |-> "1080p", night_vision |-> "true"])] >>

MaxOf(S) == IF S = {} THEN 0 ELSE CHOOSE m \in S : \A n \in S : n <= m

\* a faulty variant: a plain INTEGER PRIMARY KEY, one more than the largest id in the table
NextIdOfRows(tbl, sq) == MaxOf(DOMAIN tbl) + 1

\* id INTEGER PRIMARY KEY AUTOINCREMENT: one more than the largest id the
\* table ever held, which sqlite_sequence remembers across deletes.
NextId(tbl, sq) == MaxOf(DOMAIN tbl \cup {sq}) + 1

\* INSERT INTO devices (name, type, status, config, updated_at)
\*   VALUES (?, ?, ?, ?, CURRENT_TIMESTAMP); created_at takes its default,
\* CURRENT_TIMESTAMP, which has one value within a statement.
InsertDevice(tbl, sq, t, name, type, status, configString) ==
    LET id == NextId(tbl, sq)
    IN  [k \in DOMAIN tbl \cup {id} |->
            IF k = id
            THEN [id |-> id, name |-> name, type |-> type, status |-> status,
                  config |-> configString, created_at |-> t, updated_at |-> t]
            ELSE tbl[k]]

\* _ensureStringConfig
EnsureStringConfig(config) == IF IsString(config) THEN config ELSE JSONstringify(config)

\* a faulty variant: the row as stored, its config left as text
FormatDeviceRowRaw(row) == row

\* _formatDeviceRow: the row with its config parsed (row.config || '{}')
FormatDeviceRow(row) ==
    [row EXCEPT !.config =
        JSONparse(IF Len(row.config.chars) = 0 THEN JSONstringify(EmptyObject)
                  ELSE row.config).value]

Null == [null |-> TRUE]

\* getDeviceById: SELECT * FROM devices WHERE id = ?
GetDeviceById(tbl, id) ==
    IF id \in DOMAIN tbl THEN FormatDeviceRow(tbl[id]) ELSE Null

\* a faulty variant: ORDER BY created_at, ascending
RECURSIVE SortedByOldestFirst(_, _, _)
SortedByOldestFirst(tbl, ids, tieAscending) ==
    IF ids = {} THEN <<>>
    ELSE LET first == CHOOSE i \in ids : \A j \in ids \ {i} :
                        \/ tbl[i].created_at < tbl[j].created_at
                        \/ /\ tbl[i].created_at = tbl[j].created_at
                           /\ IF tieAscending THEN i < j ELSE i > j
         IN  <<first>> \o SortedByOldestFirst(tbl, ids \ {first}, tieAscending)

\* getAllDevices: SELECT * FROM devices ORDER BY created_at DESC.  SQL leaves
\* the order of rows of equal created_at open; the sorter yields them either
\* in scan order (ascending id) or in the reverse of it.
RECURSIVE SortedBy(_, _, _)
SortedBy(tbl, ids, tieAscending) ==
    IF ids = {} THEN <<>>
    ELSE LET first == CHOOSE i \in ids : \A j \in ids \ {i} :
                        \/ tbl[i].created_at > tbl[j].created_at
                        \/ /\ tbl[i].created_at = tbl[j].created_at
                           /\ IF tieAscending THEN i < j ELSE i > j
         IN  <<first>> \o SortedBy(tbl, ids \ {first}, tieAscending)

SelectAllOrders(tbl) == {SortedBy(tbl, DOMAIN tbl, asc) : asc \in BOOLEAN}

GetAllDevices(tbl, order) == [i \in 1..Len(order) |-> FormatDeviceRow(tbl[order[i]])]

\* _validateId
ValidateId(id) == id # 0

\* _validateUpdateData
ValidateUpdateData(updateData) == DOMAIN updateData # {}

\* a faulty variant: a fixed SET list, an absent config written as its default
UpdatedRowAllFields(row, t, updateData) ==
    [id |-> row.id, name |-> row.name, type |-> row.type,
     status |-> IF "status" \in DOMAIN updateData THEN updateData.status ELSE row.status,
     config |-> IF "config" \in DOMAIN updateData
                THEN EnsureStringConfig(updateData.config) ELSE JSONstringify(EmptyObject),
     created_at |-> row.created_at,
     updated_at |-> t]

\* a faulty variant: a SET list without updated_at
UpdatedRowSameTimestamp(row, t, updateData) ==
    [id |-> row.id, name |-> row.name, type |-> row.type,
     status |-> IF "status" \in DOMAIN updateData THEN updateData.status ELSE row.status,
     config |-> IF "config" \in DOMAIN updateData
                THEN EnsureStringConfig(updateData.config) ELSE row.config,
     created_at |-> row.created_at,
     updated_at |-> row.updated_at]

\* a faulty variant: a SET list that writes the status the handler read at
\* its existence check when the body has none (here: the seeded status)
UpdatedRowStaleStatus(row, t, updateData) ==
    [id |-> row.id, name |-> row.name, type |-> row.type,
     status |-> IF "status" \in DOMAIN updateData THEN updateData.status
                ELSE SAMPLE_DEVICES[3].status,
     config |-> IF "config" \in DOMAIN updateData
                THEN EnsureStringConfig(updateData.config) ELSE row.config,
     created_at |-> row.created_at,
     updated_at |-> t]

\* a faulty variant: the supplied config merged into the stored one
UpdatedRowMergedConfig(row, t, updateData) ==
    [id |-> row.id, name |-> row.name, type |-> row.type,
     status |-> IF "status" \in DOMAIN updateData THEN updateData.status ELSE row.status,
     config |-> IF "config" \in DOMAIN updateData
                THEN LET old == JSONparse(row.config).value
                         new == updateData.config
                     IN  JSONstringify([k \in DOMAIN old \cup DOMAIN new |->
                                            IF k \in DOMAIN new THEN new[k] ELSE old[k]])
                ELSE row.config,
     created_at |-> row.created_at,
     updated_at |-> t]

\* the SET list of updateDevice: the supplied fields, and always updated_at
UpdatedRow(row, t, updateData) ==
    [id |-> row.id, name |-> row.name, type |-> row.type,
     status |-> IF "status" \in DOMAIN updateData THEN updateData.status ELSE row.status,
     config |-> IF "config" \in DOMAIN updateData
                THEN EnsureStringConfig(updateData.config) ELSE row.config,
     created_at |-> row.created_at,
     updated_at |-> t]

\* updateDevice: UPDATE devices SET ... WHERE id = ?
\* the table after the statement
UpdateDevice(tbl, t, id, updateData) ==
    IF id \in DOMAIN tbl /\ DOMAIN updateData \cap {"status", "config"} # {}
    THEN [tbl EXCEPT ![id] = UpdatedRow(tbl[id], t, updateData)]
    ELSE tbl

\* a faulty variant: resolving true without looking at this.changes
UpdateDeviceResultAlwaysTrue(tbl, id, updateData) ==
    IF ~ValidateId(id) \/ ~ValidateUpdateData(updateData) THEN "error"
    ELSE IF DOMAIN updateData \cap {"status", "config"} = {} THEN "error"
    ELSE "true"

\* a faulty variant: no rejection of an empty SET list
UpdateDeviceResultAnyFields(tbl, id, updateData) ==
    IF ~ValidateId(id) \/ ~ValidateUpdateData(updateData) THEN "error"
    ELSE IF id \in DOMAIN tbl THEN "true" ELSE "null"

\* what updateDevice resolves to: "error" (it rejects), "null" (this.changes
\* === 0) or "true"
UpdateDeviceResult(tbl, id, updateData) ==
    IF ~ValidateId(id) \/ ~ValidateUpdateData(updateData) THEN "error"
    ELSE IF DOMAIN updateData \cap {"status", "config"} = {} THEN "error"
    ELSE IF id \in DOMAIN tbl THEN "true" ELSE "null"

\* a faulty variant: a delete that removes no row
DeleteDeviceNoRow(tbl, id) == tbl

\* deleteDevice: DELETE FROM devices WHERE id = ?
DeleteDevice(tbl, id) == [k \in DOMAIN tbl \ {id} |-> tbl[k]]

\* a faulty variant: resolving true without looking at this.changes
DeleteDeviceResultAlwaysTrue(tbl, id) == TRUE

\* what deleteDevice resolves to: this.changes > 0
DeleteDeviceResult(tbl, id) == id \in DOMAIN tbl

\* createDevice: the defaults of its destructuring, then INSERT_DEVICE
CreateDeviceData(deviceData) ==
    [name |-> deviceData.name, type |-> deviceData.type,
     status |-> IF "status" \in DOMAIN deviceData THEN deviceData.status
                ELSE DEVICE_STATUS.OFFLINE,
     config |-> IF "config" \in DOMAIN deviceData THEN deviceData.config
                ELSE JSONstringify(EmptyObject)]

CreateDevice(tbl, sq, t, deviceData) ==
    LET d == CreateDeviceData(deviceData)
    IN  InsertDevice(tbl, sq, t, d.name, d.type, d.status, EnsureStringConfig(d.config))

\* what createDevice resolves to: lastID and the values it was given, the
\* config parsed back; no timestamps
CreateDeviceResult(tbl, sq, deviceData) ==
    LET d == CreateDeviceData(deviceData)
    IN  [id |-> NextId(tbl, sq), name |-> d.name, type |-> d.type,
         status |-> d.status, config |-> JSONparse(EnsureStringConfig(d.config)).value]

\* _validateDeviceData: a name and a type, both non-empty strings
ValidateDeviceData(deviceData) ==
    /\ "name" \in DOMAIN deviceData /\ deviceData.name # ""
    /\ "type" \in DOMAIN deviceData /\ deviceData.type # ""

-----------------------------------------------------------------------------
(* The minimal store: class Database of src/db.js.  Its statements are the
   texts of QUERIES written in place, so the operators of the statements
   (InsertDevice, SortedBy, NextId) stand for both; what the methods do around
   the statements is translated here from src/db.js on its own. *)

\* createDevice of src/db.js: the defaults of its destructuring
MinimalCreateDeviceData(deviceData) ==
    [name |-> deviceData.name, type |-> deviceData.type,
     status |-> IF "status" \in DOMAIN deviceData THEN deviceData.status ELSE "offline",
     config |-> IF "config" \in DOMAIN deviceData THEN deviceData.config
                ELSE JSONstringify(EmptyObject)]

\* createDevice of src/db.js: config bound to the INSERT as it was given
MinimalCreateDevice(tbl, sq, t, deviceData) ==
    LET d == MinimalCreateDeviceData(deviceData)
    IN  InsertDevice(tbl, sq, t, d.name, d.type, d.status, d.config)

\* createDevice of src/db.js resolves to lastID, the values given and
\* JSON.parse(config)
MinimalCreateDeviceResult(tbl, sq, deviceData) ==
    LET d == MinimalCreateDeviceData(deviceData)
    IN  [id |-> NextId(tbl, sq), name |-> d.name, type |-> d.type,
         status |-> d.status, config |-> JSONparse(d.config).value]

\* the object getAllDevices and getDeviceById of src/db.js make of a row:
\* {...row, config: JSON.parse(row.config || '{}')}
MinimalFormatRow(row) ==
    [row EXCEPT !.config =
        JSONparse(IF Len(row.config.chars) = 0 THEN JSONstringify(EmptyObject)
                  ELSE row.config).value]

\* getAllDevices of src/db.js
MinimalGetAllDevices(tbl, order) == [i \in 1..Len(order) |-> MinimalFormatRow(tbl[order[i]])]

\* getDeviceById of src/db.js
MinimalGetDeviceById(tbl, id) ==
    IF id \in DOMAIN tbl THEN MinimalFormatRow(tbl[id]) ELSE Null

\* a faulty variant: the config bound to the UPDATE as it was given
MinimalUpdatedRowRawConfig(row, t, updateData) ==
    [id |-> row.id, name |-> row.name, type |-> row.type,
     status |-> IF "status" \in DOMAIN updateData THEN updateData.status ELSE row.status,
     config |-> IF "config" \in DOMAIN updateData THEN updateData.config ELSE row.config,
     created_at |-> row.created_at,
     updated_at |-> t]

\* the SET list of updateDevice of src/db.js
MinimalUpdatedRow(row, t, updateData) ==
    [id |-> row.id, name |-> row.name, type |-> row.type,
     status |-> IF "status" \in DOMAIN updateData THEN updateData.status ELSE row.status,
     config |-> IF "config" \in DOMAIN updateData
                THEN (IF IsString(updateData.config) THEN updateData.config
                      ELSE JSONstringify(updateData.config))
                ELSE row.config,
     created_at |-> row.created_at,
     updated_at |-> t]

\* updateDevice of src/db.js: the table after the statement
MinimalUpdateDevice(tbl, t, id, updateData) ==
    IF id \in DOMAIN tbl /\ DOMAIN updateData \cap {"status", "config"} # {}
    THEN [tbl EXCEPT ![id] = MinimalUpdatedRow(tbl[id], t, updateData)]
    ELSE tbl

\* what updateDevice of src/db.js resolves to; it validates nothing
MinimalUpdateDeviceResult(tbl, id, updateData) ==
    IF DOMAIN updateData \cap {"status", "config"} = {} THEN "error"
    ELSE IF id \in DOMAIN tbl THEN "true" ELSE "null"

\* deleteDevice of src/db.js
MinimalDeleteDevice(tbl, id) == [k \in DOMAIN tbl \ {id} |-> tbl[k]]

\* what deleteDevice of src/db.js resolves to
MinimalDeleteDeviceResult(tbl, id) == id \in DOMAIN tbl


-----------------------------------------------------------------------------
(* The router: src/routes/devices.js *)

DeviceTypes == {"light", "thermostat", "camera", "sensor", "switch", "speaker", "lock", "other"}
DeviceStatuses == {"on", "off", "online", "offline", "idle"}
NameMinLen == 1
NameMaxLen == 100

Digits == <<"0", "1", "2", "3", "4", "5", "6", "7", "8", "9">>
IsDigit(c) == \E d \in 1..10 : Digits[d] = c
DigitValue(c) == (CHOOSE d \in 1..10 : Digits[d] = c) - 1

RECURSIVE SkipSpaces(_, _)
SkipSpaces(str, i) ==
    IF i <= Len(str) /\ str[i] = " " THEN SkipSpaces(str, i + 1) ELSE i

RECURSIVE ParseDigits(_, _, _)
ParseDigits(str, i, acc) ==
    IF i <= Len(str) /\ IsDigit(str[i])
    THEN ParseDigits(str, i + 1, 10 * acc + DigitValue(str[i]))
    ELSE acc

\* parseInt(str) on the characters of str, in base ten: leading blanks, an
\* optional sign, then the longest run of digits; whatever follows the digits
\* is ignored, and no digit at all gives NaN.
ParseInt(str) ==
    LET i == SkipSpaces(str, 1)
        signed == i <= Len(str) /\ str[i] \in {"-", "+"}
        j == IF signed THEN i + 1 ELSE i
        magnitude == ParseDigits(str, j, 0)
    IN  IF j > Len(str) \/ ~IsDigit(str[j]) THEN [nan |-> TRUE, value |-> 0]
        ELSE [nan |-> FALSE,
              value |-> IF signed /\ str[i] = "-" THEN 0 - magnitude ELSE magnitude]

\* isNaN(deviceId) || deviceId <= 0
InvalidDeviceId(parsed) == parsed.nan \/ parsed.value <= 0

\* a faulty variant: the schema without valid(...) on type
DeviceSchemaErrorAnyType(body) ==
    IF "name" \notin DOMAIN body THEN "\"name\" is required"
    ELSE IF Len(body.name) < NameMinLen THEN "\"name\" is not allowed to be empty"
    ELSE IF Len(body.name) > NameMaxLen
        THEN "\"name\" length must be less than or equal to 100 characters long"
    ELSE IF "type" \notin DOMAIN body THEN "\"type\" is required"
    ELSE IF "status" \in DOMAIN body /\ body.status \notin DeviceStatuses
        THEN "\"status\" must be one of [on, off, online, offline, idle]"
    ELSE IF DOMAIN body \ {"name", "type", "status", "config"} # {}
        THEN "key is not allowed"
    ELSE ""

\* deviceSchema.validate(body): the message of the first violated rule, "" if none
DeviceSchemaError(body) ==
    IF "name" \notin DOMAIN body THEN "\"name\" is required"
    ELSE IF Len(body.name) < NameMinLen THEN "\"name\" is not allowed to be empty"
    ELSE IF Len(body.name) > NameMaxLen
        THEN "\"name\" length must be less than or equal to 100 characters long"
    ELSE IF "type" \notin DOMAIN body THEN "\"type\" is required"
    ELSE IF body.type \notin DeviceTypes
        THEN "\"type\" must be one of [light, thermostat, camera, sensor, switch, speaker, lock, other]"
    ELSE IF "status" \in DOMAIN body /\ body.status \notin DeviceStatuses
        THEN "\"status\" must be one of [on, off, online, offline, idle]"
    ELSE IF DOMAIN body \ {"name", "type", "status", "config"} # {}
        THEN "key is not allowed"
    ELSE ""

\* a faulty variant: the schema without .min(1)
UpdateDeviceSchemaErrorNoMin(body) ==
    IF "status" \in DOMAIN body /\ body.status \notin DeviceStatuses
        THEN "\"status\" must be one of [on, off, online, offline, idle]"
    ELSE IF DOMAIN body \ {"status", "config"} # {} THEN "key is not allowed"
    ELSE ""

\* updateDeviceSchema.validate(body)
UpdateDeviceSchemaError(body) ==
    IF "status" \in DOMAIN body /\ body.status \notin DeviceStatuses
        THEN "\"status\" must be one of [on, off, online, offline, idle]"
    ELSE IF DOMAIN body \ {"status", "config"} # {} THEN "key is not allowed"
    ELSE IF Cardinality(DOMAIN body) < 1 THEN "\"value\" must have at least 1 key"
    ELSE ""

\* a faulty variant: an omitted status defaults to "online"
PostDeviceDataOnline(value) ==
    [name |-> value.name, type |-> value.type,
     status |-> IF "status" \in DOMAIN value THEN value.status ELSE "online",
     config |-> JSONstringify(IF "config" \in DOMAIN value THEN value.config
                              ELSE EmptyObject)]

\* the deviceData the POST handler hands to createDevice
PostDeviceData(value) ==
    [name |-> value.name, type |-> value.type,
     status |-> IF "status" \in DOMAIN value THEN value.status ELSE "offline",
     config |-> JSONstringify(IF "config" \in DOMAIN value THEN value.config
                              ELSE EmptyObject)]

\* a faulty variant: the device as the store returned it
DeviceSummaryWhole(device) == device

\* the summary GET /devices makes of a device
DeviceSummary(device) ==
    [id |-> device.id, name |-> device.name, type |-> device.type,
     status |-> device.status, created_at |-> device.created_at,
     updated_at |-> device.updated_at]

InvalidIdResponse ==
    [code |-> 400, error |-> "Invalid device ID",
     message |-> "Device ID must be a positive integer"]

\* a faulty variant: 422 for a body the schema rejects
ValidationResponseUnprocessable(details) ==
    [code |-> 422, error |-> "Validation failed", details |-> details]

\* res.status(400).json of the first message of the validator
ValidationResponse(details) ==
    [code |-> 400, error |-> "Validation failed", details |-> details]

\* message: `Device with ID ${deviceId} does not exist`
NotFoundResponse(deviceId) ==
    [code |-> 404, error |-> "Device not found", id |-> deviceId]

-----------------------------------------------------------------------------
(* Inputs of the model *)

\* req.params.id, as its characters
PathIds == { <<"3">>, <<"0">>, <<"-", "3">>, <<"a", "b", "c">>,
             <<"3", ".", "5">>, <<"1", "2", "a", "b", "c">> }

LongName ==
    "0123456789012345678901234567890123456789012345678901234567890123456789012345678901234567890123456789x"

\* req.params.id of GET /devices/:id: also the first seeded device
GetPathIds == PathIds \cup { <<"1">> }

\* req.body of POST /devices
PostBodies == {
    [name |-> "Kitchen Light", type |-> "light"],
    [name |-> "Smart Door Lock", type |-> "lock", status |-> "online",
     config |-> [locked |-> "true", auto_lock |-> "300"]],
    [name |-> "Toaster", type |-> "toaster"],
    [name |-> LongName, type |-> "light"] }

\* req.body of PUT /devices/:id
PutBodies == {
    [status |-> "off"],
    [config |-> [brightness |-> "50"]],
    [status |-> "off", config |-> [brightness |-> "50"]],
    EmptyObject,
    [status |-> "broken"] }

-----------------------------------------------------------------------------
(* The process: src/unnamed/part_001 (startServer) and Database.init *)

Idle == [pc |-> "idle"]

Init ==
    /\ rows = [k \in {} |-> Null]
    /\ seq = 0
    /\ now = 0
    /\ tableExists = FALSE
    /\ phase = "down"
    /\ pending = <<>>
    /\ reqs = [s \in Slots |-> Idle]
    /\ seedOf = [k \in {} |-> 0]
    /\ issued = <<>>
    /\ conn = "none"

\* a second passes
Tick ==
    /\ now < MaxTime
    /\ now' = now + 1
    /\ UNCHANGED <<rows, seq, tableExists, phase, pending, reqs, seedOf, issued, conn>>

\* a faulty variant: the file created anew at each start
OpenDatabaseAnew(tbl) == [k \in {} |-> Null]

\* new sqlite3.Database(dbPath), in its default mode (read-write, create if
\* missing): the file at the fixed path as the last process left it
OpenDatabase(tbl) == tbl

\* startServer calls db.init: new sqlite3.Database(dbPath) opens the file
StartServer ==
    /\ phase \in {"down", "failed"}
    /\ phase' = "opened"
    /\ rows' = OpenDatabase(rows)
    /\ conn' = "open"
    /\ UNCHANGED <<seq, now, tableExists, pending, reqs, seedOf, issued>>

\* CREATE TABLE IF NOT EXISTS devices: whether the statement succeeds
CreateTableSucceeds(exists) == TRUE

\* createTables; when the statement fails init rejects and startServer exits
CreateTables ==
    /\ phase = "opened"
    /\ IF CreateTableSucceeds(tableExists)
       THEN phase' = "tables" /\ tableExists' = TRUE
       ELSE phase' = "failed" /\ UNCHANGED tableExists
    /\ UNCHANGED <<rows, seq, now, pending, reqs, seedOf, issued, conn>>

\* a faulty variant: seeding without looking at the count
ShouldSeedAlways(count) == TRUE

\* a faulty variant: no seeding at all
ShouldSeedNever(count) == FALSE

\* seedSampleData: row.count === 0
ShouldSeed(count) == count = 0

\* seedSampleData: SELECT COUNT(*); on an empty table _insertSampleDevices
\* queues one run of the prepared INSERT for each sample
SeedSampleData ==
    /\ phase = "tables"
    /\ IF ShouldSeed(Cardinality(DOMAIN rows))
       THEN /\ pending' = [i \in 1..Len(SAMPLE_DEVICES) |-> i]
            /\ phase' = "seeding"
       ELSE /\ phase' = "ready"
            /\ UNCHANGED pending
    /\ UNCHANGED <<rows, seq, now, tableExists, reqs, seedOf, issued, conn>>

\* one queued stmt.run of _insertSampleDevices executes
InsertSampleDevice ==
    /\ phase = "seeding"
    /\ pending # <<>>
    /\ NextId(rows, seq) <= MaxId
    /\ LET device == SAMPLE_DEVICES[Head(pending)]
           id == NextId(rows, seq)
       IN  /\ rows' = InsertDevice(rows, seq, now, device.name, device.type,
                                   device.status, device.config)
           /\ seq' = id
           /\ seedOf' = [k \in DOMAIN seedOf \cup {id} |->
                            IF k = id THEN Head(pending) ELSE seedOf[k]]
           /\ issued' = Append(issued, id)
    /\ pending' = Tail(pending)
    /\ UNCHANGED <<now, tableExists, phase, reqs, conn>>

\* a faulty variant: finalize calling back while runs are still queued
FinalizeCallsBackAtOnce(queued) == TRUE

\* stmt.finalize is queued on the statement behind its runs
FinalizeCallsBack(queued) == queued = <<>>

\* stmt.finalize calls back after the queued runs: init resolves
SeedingDone ==
    /\ phase = "seeding"
    /\ FinalizeCallsBack(pending)
    /\ phase' = "ready"
    /\ UNCHANGED <<rows, seq, now, tableExists, pending, reqs, seedOf, issued, conn>>

\* a statement of init fails (the open, the CREATE TABLE, the count or the
\* finalize of the seeding calls back with an error): init rejects, and the
\* catch of startServer logs and calls process.exit(1)
InitFails ==
    /\ phase \in {"opened", "tables", "seeding"}
    /\ phase' = "failed"
    /\ pending' = <<>>
    /\ conn' = "none"
    /\ UNCHANGED <<rows, seq, now, tableExists, reqs, seedOf, issued>>

\* a faulty variant: app.listen without waiting for db.init()
ListenAtOnce ==
    /\ phase \in {"opened", "tables", "seeding", "ready"}
    /\ phase' = "listening"
    /\ UNCHANGED <<rows, seq, now, tableExists, pending, reqs, seedOf, issued, conn>>

\* after await db.init(): app.listen
Listen ==
    /\ phase = "ready"
    /\ phase' = "listening"
    /\ UNCHANGED <<rows, seq, now, tableExists, pending, reqs, seedOf, issued, conn>>

\* SIGINT: server.close stops accepting connections
Sigint ==
    /\ phase = "listening"
    /\ phase' = "closing"
    /\ UNCHANGED <<rows, seq, now, tableExists, pending, reqs, seedOf, issued, conn>>

InFlight(r) == r.pc \notin {"idle", "done"}

\* the state of the connection once process.exit(0) has run in the callback
\* that called db.close(): close only queues the closing of the handle and
\* calls back in a later turn of the event loop, and exit does not wait for
\* it, so the handle is closed or not as the exit happens to find it
ConnectionAtExit == {"closing", "closed"}

\* the callback of server.close, once the connections have ended: db.close()
\* and process.exit(0)
ServerClosed ==
    /\ phase = "closing"
    /\ \A s \in Slots : ~InFlight(reqs[s])
    /\ phase' = "down"
    /\ conn' \in ConnectionAtExit
    /\ reqs' = [s \in Slots |-> Idle]
    /\ UNCHANGED <<rows, seq, now, tableExists, pending, seedOf, issued>>

-----------------------------------------------------------------------------
(* The handlers of the router.  A connection (a slot) carries one request   *)
(* at a time and keeps the last response until its next request arrives.   *)

NewRequest(route, path, body) ==
    [pc |-> "start", route |-> route, path |-> path, body |-> body,
     deviceId |-> 0, existing |-> Null, calls |-> <<>>, resp |-> Null, sent |-> 0]

\* a faulty variant: an answer sent without return, the handler going on to
\* the answer at its end
RespondAndGoOn(r, resp) == [r EXCEPT !.pc = "done", !.resp = resp, !.sent = @ + 2]

\* res.status(code).json(body), the last statement the handler runs: return
\* res.status... on the early paths, the end of the try or of the catch
\* otherwise.  sent counts the responses sent for the request.
Respond(r, resp) == [r EXCEPT !.pc = "done", !.resp = resp, !.sent = @ + 1]

\* the handler calls a method of db
Called(r, method) == [r EXCEPT !.calls = Append(@, method)]

\* a connection takes its next request once the previous one is answered
Accepting(s) == phase = "listening" /\ reqs[s].pc \in {"idle", "done"}

\* router.post('/')
RoutePost(s, body) ==
    /\ Accepting(s)
    /\ LET r == NewRequest("POST /devices", <<>>, body)
           error == DeviceSchemaError(body)
           deviceData == PostDeviceData(body)
       IN  IF error # ""
           THEN /\ reqs' = [reqs EXCEPT ![s] = Respond(r, ValidationResponse(error))]
                /\ UNCHANGED <<rows, seq, issued>>
           ELSE /\ NextId(rows, seq) <= MaxId
                /\ rows' = CreateDevice(rows, seq, now, deviceData)
                /\ seq' = NextId(rows, seq)
                /\ issued' = Append(issued, NextId(rows, seq))
                /\ reqs' = [reqs EXCEPT ![s] =
                        Respond(Called(r, "createDevice"),
                                [code |-> 201, message |-> "Device registered successfully",
                                 device |-> CreateDeviceResult(rows, seq, deviceData)])]
    /\ UNCHANGED <<now, tableExists, phase, pending, seedOf, conn>>

\* router.get('/')
RouteList(s) ==
    /\ Accepting(s)
    /\ \E order \in SelectAllOrders(rows) :
        LET r == NewRequest("GET /devices", <<>>, EmptyObject)
            devices == GetAllDevices(rows, order)
            devicesSummary == [i \in 1..Len(devices) |-> DeviceSummary(devices[i])]
        IN  reqs' = [reqs EXCEPT ![s] =
                Respond(Called(r, "getAllDevices"),
                        [code |-> 200, message |-> "Devices retrieved successfully",
                         count |-> Len(devicesSummary), devices |-> devicesSummary])]
    /\ UNCHANGED <<rows, seq, now, tableExists, phase, pending, seedOf, issued, conn>>

\* router.get('/:id')
RouteGet(s, path) ==
    /\ Accepting(s)
    /\ LET parsed == ParseInt(path)
           deviceId == parsed.value
           r == [NewRequest("GET /devices/:id", path, EmptyObject) EXCEPT
                    !.deviceId = deviceId]
           device == GetDeviceById(rows, deviceId)
       IN  reqs' = [reqs EXCEPT ![s] =
                IF InvalidDeviceId(parsed) THEN Respond(r, InvalidIdResponse)
                ELSE IF device = Null
                    THEN Respond(Called(r, "getDeviceById"), NotFoundResponse(deviceId))
                ELSE Respond(Called(r, "getDeviceById"),
                             [code |-> 200, message |-> "Device retrieved successfully",
                              device |-> device])]
    /\ UNCHANGED <<rows, seq, now, tableExists, phase, pending, seedOf, issued, conn>>

\* a faulty variant: the body validated before the id
RoutePutBodyFirst(s, path, body) ==
    /\ Accepting(s)
    /\ LET parsed == ParseInt(path)
           deviceId == parsed.value
           r == [NewRequest("PUT /devices/:id", path, body) EXCEPT
                    !.deviceId = deviceId]
           error == UpdateDeviceSchemaError(body)
           existingDevice == GetDeviceById(rows, deviceId)
       IN  reqs' = [reqs EXCEPT ![s] =
                IF error # "" THEN Respond(r, ValidationResponse(error))
                ELSE IF InvalidDeviceId(parsed) THEN Respond(r, InvalidIdResponse)
                ELSE IF existingDevice = Null
                    THEN Respond(Called(r, "getDeviceById"), NotFoundResponse(deviceId))
                ELSE [Called(r, "getDeviceById") EXCEPT
                        !.pc = "update", !.existing = existingDevice]]
    /\ UNCHANGED <<rows, seq, now, tableExists, phase, pending, seedOf, issued, conn>>

\* router.put('/:id') up to its second await: the id, the body, then the
\* existence check
RoutePut(s, path, body) ==
    /\ Accepting(s)
    /\ LET parsed == ParseInt(path)
           deviceId == parsed.value
           r == [NewRequest("PUT /devices/:id", path, body) EXCEPT
                    !.deviceId = deviceId]
           error == UpdateDeviceSchemaError(body)
           existingDevice == GetDeviceById(rows, deviceId)
       IN  reqs' = [reqs EXCEPT ![s] =
                IF InvalidDeviceId(parsed) THEN Respond(r, InvalidIdResponse)
                ELSE IF error # "" THEN Respond(r, ValidationResponse(error))
                ELSE IF existingDevice = Null
                    THEN Respond(Called(r, "getDeviceById"), NotFoundResponse(deviceId))
                ELSE [Called(r, "getDeviceById") EXCEPT
                        !.pc = "update", !.existing = existingDevice]]
    /\ UNCHANGED <<rows, seq, now, tableExists, phase, pending, seedOf, issued, conn>>

ServerError(message) ==
    [code |-> 500, error |-> "Internal server error", message |-> message]

\* router.put('/:id'): await db.updateDevice(deviceId, value)
RoutePutUpdate(s) ==
    /\ reqs[s].pc = "update"
    /\ LET r == Called(reqs[s], "updateDevice")
           updateResult == UpdateDeviceResult(rows, r.deviceId, r.body)
       IN  /\ rows' = IF updateResult = "error" THEN rows
                      ELSE UpdateDevice(rows, now, r.deviceId, r.body)
           /\ reqs' = [reqs EXCEPT ![s] =
                IF updateResult = "error"
                    THEN Respond(r, ServerError("Failed to update device"))
                ELSE IF updateResult = "null"
                    THEN Respond(r, NotFoundResponse(r.deviceId))
                ELSE [r EXCEPT !.pc = "refetch"]]
    /\ UNCHANGED <<seq, now, tableExists, phase, pending, seedOf, issued, conn>>

\* router.put('/:id'): await db.getDeviceById(deviceId), then res.json
RoutePutRefetch(s) ==
    /\ reqs[s].pc = "refetch"
    /\ LET r == Called(reqs[s], "getDeviceById")
           updatedDevice == GetDeviceById(rows, r.deviceId)
       IN  reqs' = [reqs EXCEPT ![s] =
                Respond(r, [code |-> 200, message |-> "Device updated successfully",
                            device |-> updatedDevice])]
    /\ UNCHANGED <<rows, seq, now, tableExists, phase, pending, seedOf, issued, conn>>

\* router.delete('/:id') up to its second await: the id, then the existence check
RouteDelete(s, path) ==
    /\ Accepting(s)
    /\ LET parsed == ParseInt(path)
           deviceId == parsed.value
           r == [NewRequest("DELETE /devices/:id", path, EmptyObject) EXCEPT
                    !.deviceId = deviceId]
           existingDevice == GetDeviceById(rows, deviceId)
       IN  reqs' = [reqs EXCEPT ![s] =
                IF InvalidDeviceId(parsed) THEN Respond(r, InvalidIdResponse)
                ELSE IF existingDevice = Null
                    THEN Respond(Called(r, "getDeviceById"), NotFoundResponse(deviceId))
                ELSE [Called(r, "getDeviceById") EXCEPT
                        !.pc = "delete", !.existing = existingDevice]]
    /\ UNCHANGED <<rows, seq, now, tableExists, phase, pending, seedOf, issued, conn>>

\* router.delete('/:id'): await db.deleteDevice(deviceId), then the response
RouteDeleteRun(s) ==
    /\ reqs[s].pc = "delete"
    /\ LET r == Called(reqs[s], "deleteDevice")
           deleteResult == DeleteDeviceResult(rows, r.deviceId)
       IN  /\ rows' = DeleteDevice(rows, r.deviceId)
           /\ reqs' = [reqs EXCEPT ![s] =
                IF deleteResult
                THEN Respond(r, [code |-> 200, message |-> "Device deleted successfully",
                                 deleted_device |-> [id |-> r.existing.id,
                                                     name |-> r.existing.name,
                                                     type |-> r.existing.type]])
                ELSE Respond(r, NotFoundResponse(r.deviceId))]
    /\ UNCHANGED <<seq, now, tableExists, phase, pending, seedOf, issued, conn>>

-----------------------------------------------------------------------------
(* The handlers when a call of the store fails: the promise db returns is   *)
(* rejected with an error of sqlite, and the catch block of the handler     *)
(* answers.                                                                  *)

\* err.message of the errors sqlite calls back with
StoreErrors == { "SQLITE_BUSY: database is locked", "SQLITE_IOERR: disk I/O error" }

\* a faulty variant: the message of the error sent to the client
CatchResponseWithCause(route, error) ==
    [code |-> 500, error |-> "Internal server error", message |-> error]

\* the catch block of the handler of the route: console.error(..., error),
\* then res.status(500).json of two fixed strings
CatchResponse(route, error) ==
    ServerError(CASE route = "POST /devices" -> "Failed to register device"
                  [] route = "GET /devices" -> "Failed to retrieve devices"
                  [] route = "GET /devices/:id" -> "Failed to retrieve device"
                  [] route = "PUT /devices/:id" -> "Failed to update device"
                  [] route = "DELETE /devices/:id" -> "Failed to delete device")

\* router.post('/'): db.createDevice rejects
RoutePostFails(s, body, error) ==
    /\ Accepting(s)
    /\ DeviceSchemaError(body) = ""
    /\ LET r == Called(NewRequest("POST /devices", <<>>, body), "createDevice")
       IN  reqs' = [reqs EXCEPT ![s] = Respond(r, CatchResponse(r.route, error))]
    /\ UNCHANGED <<rows, seq, now, tableExists, phase, pending, seedOf, issued, conn>>

\* router.get('/'): db.getAllDevices rejects
RouteListFails(s, error) ==
    /\ Accepting(s)
    /\ LET r == Called(NewRequest("GET /devices", <<>>, EmptyObject), "getAllDevices")
       IN  reqs' = [reqs EXCEPT ![s] = Respond(r, CatchResponse(r.route, error))]
    /\ UNCHANGED <<rows, seq, now, tableExists, phase, pending, seedOf, issued, conn>>

\* router.get('/:id'): db.getDeviceById rejects
RouteGetFails(s, path, error) ==
    /\ Accepting(s)
    /\ ~InvalidDeviceId(ParseInt(path))
    /\ LET r == Called([NewRequest("GET /devices/:id", path, EmptyObject) EXCEPT
                            !.deviceId = ParseInt(path).value], "getDeviceById")
       IN  reqs' = [reqs EXCEPT ![s] = Respond(r, CatchResponse(r.route, error))]
    /\ UNCHANGED <<rows, seq, now, tableExists, phase, pending, seedOf, issued, conn>>

\* router.put('/:id'): the db.getDeviceById of the existence check rejects
RoutePutFails(s, path, body, error) ==
    /\ Accepting(s)
    /\ ~InvalidDeviceId(ParseInt(path))
    /\ UpdateDeviceSchemaError(body) = ""
    /\ LET r == Called([NewRequest("PUT /devices/:id", path, body) EXCEPT
                            !.deviceId = ParseInt(path).value], "getDeviceById")
       IN  reqs' = [reqs EXCEPT ![s] = Respond(r, CatchResponse(r.route, error))]
    /\ UNCHANGED <<rows, seq, now, tableExists, phase, pending, seedOf, issued, conn>>

\* router.put('/:id'): db.updateDevice rejects, the statement having failed
RoutePutUpdateFails(s, error) ==
    /\ reqs[s].pc = "update"
    /\ LET r == Called(reqs[s], "updateDevice")
       IN  reqs' = [reqs EXCEPT ![s] = Respond(r, CatchResponse(r.route, error))]
    /\ UNCHANGED <<rows, seq, now, tableExists, phase, pending, seedOf, issued, conn>>

\* router.put('/:id'): the db.getDeviceById after the update rejects
RoutePutRefetchFails(s, error) ==
    /\ reqs[s].pc = "refetch"
    /\ LET r == Called(reqs[s], "getDeviceById")
       IN  reqs' = [reqs EXCEPT ![s] = Respond(r, CatchResponse(r.route, error))]
    /\ UNCHANGED <<rows, seq, now, tableExists, phase, pending, seedOf, issued, conn>>

\* router.delete('/:id'): the db.getDeviceById of the existence check rejects
RouteDeleteFails(s, path, error) ==
    /\ Accepting(s)
    /\ ~InvalidDeviceId(ParseInt(path))
    /\ LET r == Called([NewRequest("DELETE /devices/:id", path, EmptyObject) EXCEPT
                            !.deviceId = ParseInt(path).value], "getDeviceById")
       IN  reqs' = [reqs EXCEPT ![s] = Respond(r, CatchResponse(r.route, error))]
    /\ UNCHANGED <<rows, seq, now, tableExists, phase, pending, seedOf, issued, conn>>

\* router.delete('/:id'): db.deleteDevice rejects, the statement having failed
RouteDeleteRunFails(s, error) ==
    /\ reqs[s].pc = "delete"
    /\ LET r == Called(reqs[s], "deleteDevice")
       IN  reqs' = [reqs EXCEPT ![s] = Respond(r, CatchResponse(r.route, error))]
    /\ UNCHANGED <<rows, seq, now, tableExists, phase, pending, seedOf, issued, conn>>

\* a call of the store made by the handler on slot s fails with the error
StoreCallFails(s, error) ==
    \/ RoutePostFails(s, [name |-> "Kitchen Light", type |-> "light"], error)
    \/ RouteListFails(s, error)
    \/ RouteGetFails(s, <<"3">>, error)
    \/ \E body \in { [status |-> "off"], [config |-> [brightness |-> "50"]] } :
            RoutePutFails(s, <<"3">>, body, error)
    \/ RoutePutUpdateFails(s, error)
    \/ RoutePutRefetchFails(s, error)
    \/ RouteDeleteFails(s, <<"3">>, error)
    \/ RouteDeleteRunFails(s, error)

-----------------------------------------------------------------------------
(* Calls of the methods of the store made by a module other than the        *)
(* router, once init has resolved.  Slot s keeps the call and how its        *)
(* promise settled.                                                          *)

\* ids and update objects such a caller passes
StoreIds == {3, 4}
StoreUpdates == { EmptyObject, [name |-> "Lamp"], [status |-> "off"],
                  [config |-> [brightness |-> "50"]], [config |-> EmptyObject] }

StoreCall(method, id, data, settled, value) ==
    [pc |-> "done", route |-> method, path |-> <<>>, body |-> data, deviceId |-> id,
     existing |-> Null, calls |-> <<method>>,
     resp |-> [settled |-> settled, value |-> value]]

\* await db.updateDevice(id, updateData)
CallUpdateDevice(s, id, updateData) ==
    /\ phase = "ready"
    /\ LET result == UpdateDeviceResult(rows, id, updateData)
       IN  /\ rows' = IF result = "error" THEN rows
                      ELSE UpdateDevice(rows, now, id, updateData)
           /\ reqs' = [reqs EXCEPT ![s] =
                    StoreCall("updateDevice", id, updateData,
                              IF result = "error" THEN "rejected" ELSE "resolved",
                              [result |-> result])]
    /\ UNCHANGED <<seq, now, tableExists, phase, pending, seedOf, issued, conn>>

\* await db.getDeviceById(id)
CallGetDeviceById(s, id) ==
    /\ phase = "ready"
    /\ reqs' = [reqs EXCEPT ![s] =
            StoreCall("getDeviceById", id, EmptyObject, "resolved", GetDeviceById(rows, id))]
    /\ UNCHANGED <<rows, seq, now, tableExists, phase, pending, seedOf, issued, conn>>

\* what the router hands to createDevice, and a call without a name
RouterCreateData == {PostDeviceData(body) : body \in {b \in PostBodies : DeviceSchemaError(b) = ""}}
StoreCreates == RouterCreateData \cup {[type |-> "light"]}

\* what the router hands to updateDevice, and a call with an empty object
RouterUpdates == {body \in PutBodies : UpdateDeviceSchemaError(body) = ""}
CallUpdates == RouterUpdates \cup {EmptyObject}

\* await db.createDevice(deviceData)
CallCreateDevice(s, deviceData) ==
    /\ phase = "ready"
    /\ IF ~ValidateDeviceData(deviceData)
       THEN /\ reqs' = [reqs EXCEPT ![s] =
                    StoreCall("createDevice", 0, deviceData, "rejected", Null)]
            /\ UNCHANGED <<rows, seq, issued>>
       ELSE /\ NextId(rows, seq) <= MaxId
            /\ rows' = CreateDevice(rows, seq, now, deviceData)
            /\ seq' = NextId(rows, seq)
            /\ issued' = Append(issued, NextId(rows, seq))
            /\ reqs' = [reqs EXCEPT ![s] =
                    StoreCall("createDevice", 0, deviceData, "resolved",
                              CreateDeviceResult(rows, seq, deviceData))]
    /\ UNCHANGED <<now, tableExists, phase, pending, seedOf, conn>>

\* await db.getAllDevices()
CallGetAllDevices(s) ==
    /\ phase = "ready"
    /\ \E order \in SelectAllOrders(rows) :
        reqs' = [reqs EXCEPT ![s] =
            StoreCall("getAllDevices", 0, EmptyObject, "resolved", GetAllDevices(rows, order))]
    /\ UNCHANGED <<rows, seq, now, tableExists, phase, pending, seedOf, issued, conn>>

\* await db.deleteDevice(id)
CallDeleteDevice(s, id) ==
    /\ phase = "ready"
    /\ rows' = DeleteDevice(rows, id)
    /\ reqs' = [reqs EXCEPT ![s] =
            StoreCall("deleteDevice", id, EmptyObject, "resolved",
                      [result |-> DeleteDeviceResult(rows, id)])]
    /\ UNCHANGED <<seq, now, tableExists, phase, pending, seedOf, issued, conn>>

\* a faulty variant: close rejects when closing the handle reports an error
CloseSettlesRejecting(err) == IF err THEN "rejected" ELSE "resolved"

\* close: the callback of db.close logs the error, if any, and resolves
CloseSettles(err) == "resolved"

\* await db.close(): nothing when this.db was never assigned; otherwise the
\* handle is closed, which reports an error when it is closed already, the
\* flag is cleared and the promise resolves. this.db keeps the handle.
CallClose(s) ==
    /\ phase \in {"down", "ready"}
    /\ conn \in {"none", "open", "closed"}
    /\ IF conn = "none"
       THEN /\ reqs' = [reqs EXCEPT ![s] =
                    StoreCall("close", 0, EmptyObject, "resolved", [error |-> FALSE])]
            /\ UNCHANGED <<phase, conn>>
       ELSE /\ reqs' = [reqs EXCEPT ![s] =
                    StoreCall("close", 0, EmptyObject, CloseSettles(conn = "closed"),
                              [error |-> conn = "closed"])]
            /\ phase' = "down"
            /\ conn' = "closed"
    /\ UNCHANGED <<rows, seq, now, tableExists, pending, seedOf, issued>>

\* a call of init in progress: where it stands, and the runs of the prepared
\* INSERT it has queued and that have not executed yet
InitCall(pc, queued, settled) ==
    [pc |-> pc, route |-> "init", queued |-> queued, resp |-> [settled |-> settled]]

\* the isInitialized flag of the store
IsInitialized == phase = "ready"

\* await db.init(): nothing when isInitialized is set; otherwise the file is
\* opened and this.db assigned
CallInit(s) ==
    /\ phase \in {"down", "opened", "ready"}
    /\ reqs[s].pc \in {"idle", "done"}
    /\ IF IsInitialized
       THEN /\ reqs' = [reqs EXCEPT ![s] = InitCall("done", <<>>, "resolved")]
            /\ UNCHANGED <<rows, phase, conn>>
       ELSE /\ reqs' = [reqs EXCEPT ![s] = InitCall("createTables", <<>>, "pending")]
            /\ rows' = OpenDatabase(rows)
            /\ phase' = "opened"
            /\ conn' = "open"
    /\ UNCHANGED <<seq, now, tableExists, pending, seedOf, issued>>

\* the CREATE TABLE IF NOT EXISTS of the call has run; seedSampleData issues
\* the count
InitCreateTables(s) ==
    /\ reqs[s].pc = "createTables"
    /\ tableExists' = TRUE
    /\ reqs' = [reqs EXCEPT ![s].pc = "count"]
    /\ UNCHANGED <<rows, seq, now, phase, pending, seedOf, issued, conn>>

\* the count of the call has run: on an empty table the three runs of the
\* INSERT are queued, otherwise _setupDatabase resolves, the flag is set and
\* init resolves
InitSeedSampleData(s) ==
    /\ reqs[s].pc = "count"
    /\ IF ShouldSeed(Cardinality(DOMAIN rows))
       THEN /\ reqs' = [reqs EXCEPT ![s] =
                    InitCall("insert", [i \in 1..Len(SAMPLE_DEVICES) |-> i], "pending")]
            /\ UNCHANGED phase
       ELSE /\ reqs' = [reqs EXCEPT ![s] = InitCall("done", <<>>, "resolved")]
            /\ phase' = "ready"
    /\ UNCHANGED <<rows, seq, now, tableExists, pending, seedOf, issued, conn>>

\* one queued stmt.run of the call executes
InitInsertSampleDevice(s) ==
    /\ reqs[s].pc = "insert"
    /\ reqs[s].queued # <<>>
    /\ LET sample == Head(reqs[s].queued)
           device == SAMPLE_DEVICES[sample]
           id == NextId(rows, seq)
       IN  /\ rows' = InsertDevice(rows, seq, now, device.name, device.type,
                                   device.status, device.config)
           /\ seq' = id
           /\ seedOf' = [k \in DOMAIN seedOf \cup {id} |->
                            IF k = id THEN sample ELSE seedOf[k]]
           /\ issued' = Append(issued, id)
    /\ reqs' = [reqs EXCEPT ![s].queued = Tail(reqs[s].queued)]
    /\ UNCHANGED <<now, tableExists, phase, pending, conn>>

\* stmt.finalize of the call calls back: the flag is set and init resolves
InitSeedingDone(s) ==
    /\ reqs[s].pc = "insert"
    /\ FinalizeCallsBack(reqs[s].queued)
    /\ reqs' = [reqs EXCEPT ![s] = InitCall("done", <<>>, "resolved")]
    /\ phase' = "ready"
    /\ UNCHANGED <<rows, seq, now, tableExists, pending, seedOf, issued, conn>>

-----------------------------------------------------------------------------

\* one request at a time, on one connection
Next ==
    \/ Tick
    \/ StartServer
    \/ CreateTables
    \/ SeedSampleData
    \/ InsertSampleDevice
    \/ SeedingDone
    \/ Listen
    \/ Sigint
    \/ ServerClosed
    \/ \E body \in PostBodies : RoutePost(1, body)
    \/ RouteList(1)
    \/ \E path \in GetPathIds : RouteGet(1, path)
    \/ \E path \in PathIds, body \in PutBodies : RoutePut(1, path, body)
    \/ RoutePutUpdate(1)
    \/ RoutePutRefetch(1)
    \/ \E path \in PathIds : RouteDelete(1, path)
    \/ RouteDeleteRun(1)

Spec == Init /\ [][Next]_vars

\* the requests of the two-connection runs: all on the device of id 3
RacePath == <<"3">>
RaceBodies == { [status |-> "off"], [config |-> [brightness |-> "50"]] }

\* one run of the process, requests on two connections at a time, their
\* handlers interleaved between their store calls
NextConcurrent ==
    \/ Tick
    \/ StartServer
    \/ CreateTables
    \/ SeedSampleData
    \/ InsertSampleDevice
    \/ SeedingDone
    \/ Listen
    \/ \E s \in Slots :
        \/ RouteGet(s, RacePath)
        \/ \E body \in RaceBodies : RoutePut(s, RacePath, body)
        \/ RoutePutUpdate(s)
        \/ RoutePutRefetch(s)
        \/ RouteDelete(s, RacePath)
        \/ RouteDeleteRun(s)

SpecConcurrent == Init /\ [][NextConcurrent]_vars

\* one run of the process, one request at a time, each call of the store
\* succeeding or failing
NextFailing ==
    \/ Tick
    \/ StartServer
    \/ CreateTables
    \/ SeedSampleData
    \/ InsertSampleDevice
    \/ SeedingDone
    \/ Listen
    \/ RoutePost(1, [name |-> "Kitchen Light", type |-> "light"])
    \/ RouteList(1)
    \/ RouteGet(1, RacePath)
    \/ \E body \in RaceBodies : RoutePut(1, RacePath, body)
    \/ RoutePutUpdate(1)
    \/ RoutePutRefetch(1)
    \/ RouteDelete(1, RacePath)
    \/ RouteDeleteRun(1)
    \/ \E error \in StoreErrors : StoreCallFails(1, error)

SpecFailing == Init /\ [][NextFailing]_vars

\* the requests of the runs on two connections with every route: bodies the
\* schemas accept and reject, ids the handlers accept and reject
ServingPostBodies == { [name |-> "Kitchen Light", type |-> "light"],
                       [name |-> "Toaster", type |-> "toaster"] }
ServingPaths == { <<"3">>, <<"0">> }
ServingPutBodies == { [status |-> "off"], EmptyObject }

\* one run of the process within one second, requests of every route on two
\* connections at a time, their handlers interleaved between their store
\* calls, each call of the store succeeding or failing
NextServing ==
    \/ StartServer
    \/ CreateTables
    \/ SeedSampleData
    \/ InsertSampleDevice
    \/ SeedingDone
    \/ Listen
    \/ \E s \in Slots :
        \/ \E body \in ServingPostBodies : RoutePost(s, body)
        \/ RouteList(s)
        \/ \E path \in ServingPaths : RouteGet(s, path)
        \/ \E path \in ServingPaths, body \in ServingPutBodies : RoutePut(s, path, body)
        \/ RoutePutUpdate(s)
        \/ RoutePutRefetch(s)
        \/ \E path \in ServingPaths : RouteDelete(s, path)
        \/ RouteDeleteRun(s)
        \/ \E error \in StoreErrors : StoreCallFails(s, error)

SpecServing == Init /\ [][NextServing]_vars

\* the callback of the store call a handler on slot s is waiting for fires,
\* with a result or with an error
StoreCallback(s) ==
    \/ RoutePutUpdate(s)
    \/ RoutePutRefetch(s)
    \/ RouteDeleteRun(s)
    \/ \E error \in StoreErrors :
        \/ RoutePutUpdateFails(s, error)
        \/ RoutePutRefetchFails(s, error)
        \/ RouteDeleteRunFails(s, error)

\* the same runs, every store callback firing eventually
SpecServingFair == SpecServing /\ \A s \in Slots : WF_vars(StoreCallback(s))

\* the store used directly: init, then calls of its methods one at a time
NextStore ==
    \/ Tick
    \/ StartServer
    \/ CreateTables
    \/ SeedSampleData
    \/ InsertSampleDevice
    \/ SeedingDone
    \/ \E id \in StoreIds, updateData \in StoreUpdates : CallUpdateDevice(1, id, updateData)
    \/ \E id \in StoreIds : CallGetDeviceById(1, id)
    \/ CallClose(1)

SpecStore == Init /\ [][NextStore]_vars

\* the methods the router calls, called on the initialized store one at a time
NextCalls ==
    \/ Tick
    \/ StartServer
    \/ CreateTables
    \/ SeedSampleData
    \/ InsertSampleDevice
    \/ SeedingDone
    \/ \E deviceData \in StoreCreates : CallCreateDevice(1, deviceData)
    \/ CallGetAllDevices(1)
    \/ \E id \in StoreIds : CallGetDeviceById(1, id)
    \/ \E id \in StoreIds, updateData \in CallUpdates : CallUpdateDevice(1, id, updateData)
    \/ \E id \in StoreIds : CallDeleteDevice(1, id)

SpecCalls == Init /\ [][NextCalls]_vars

\* init of the store called by two callers, a call possibly made before the
\* other one has resolved
NextInit ==
    \/ Tick
    \/ \E s \in Slots :
        \/ CallInit(s)
        \/ InitCreateTables(s)
        \/ InitSeedSampleData(s)
        \/ InitInsertSampleDevice(s)
        \/ InitSeedingDone(s)

SpecInit == Init /\ [][NextInit]_vars

\* the process started again and again, init succeeding or failing, one
\* request at a time while it listens
NextStartup ==
    \/ StartServer
    \/ CreateTables
    \/ SeedSampleData
    \/ InsertSampleDevice
    \/ SeedingDone
    \/ InitFails
    \/ Listen
    \/ Sigint
    \/ ServerClosed
    \/ RoutePost(1, [name |-> "Kitchen Light", type |-> "light"])
    \/ RouteList(1)
    \/ RouteGet(1, RacePath)
    \/ RouteDelete(1, RacePath)
    \/ RouteDeleteRun(1)

SpecStartup == Init /\ [][NextStartup]_vars

\* the requests of the runs that empty the table: a create, and deletes of
\* the three seeded devices
ReseedBody == [name |-> "Kitchen Light", type |-> "light"]
ReseedPaths == { <<"1">>, <<"2">>, <<"3">> }

\* the process started and interrupted again and again on the same file,
\* one request at a time in between
NextReseed ==
    \/ StartServer
    \/ CreateTables
    \/ SeedSampleData
    \/ InsertSampleDevice
    \/ SeedingDone
    \/ Listen
    \/ Sigint
    \/ ServerClosed
    \/ RoutePost(1, ReseedBody)
    \/ \E path \in ReseedPaths : RouteDelete(1, path)
    \/ RouteDeleteRun(1)

SpecReseed == Init /\ [][NextReseed]_vars

-----------------------------------------------------------------------------
(* Properties *)

\* after this step slot s holds the response of a request of the route
Answered(s, route) == reqs'[s].pc = "done" /\ reqs'[s].route = route

\* after this step slot s holds a request of the route, answered or not
Holds(s, route) == reqs'[s].pc # "idle" /\ reqs'[s].route = route

SameDevice(a, b) ==
    /\ a.id = b.id /\ a.name = b.name /\ a.type = b.type
    /\ a.status = b.status /\ a.config = b.config

\* C1: the record createDevice resolves to and the record getDeviceById
\* returns for its id right after the insert (no write in between) agree on
\* id, name, type, status and config, and the row read back has created_at
\* equal to updated_at.
C1_GetAfterCreate ==
    [][\A body \in PostBodies :
        (Answered(1, "POST /devices") /\ reqs'[1].resp.code = 201 /\ RoutePost(1, body)) =>
            LET created == reqs'[1].resp.device
                got == GetDeviceById(rows', created.id)
            IN  /\ got # Null
                /\ SameDevice(got, created)
                /\ got.created_at = got.updated_at]_vars

\* a device has been created with an explicit status and config and is in the table
C1_Witness ==
    /\ reqs[1].pc = "done" /\ reqs[1].route = "POST /devices"
    /\ reqs[1].resp.code = 201
    /\ "config" \in DOMAIN reqs[1].body
    /\ reqs[1].resp.device.config = [locked |-> "true", auto_lock |-> "300"]
    /\ reqs[1].resp.device.id \in DOMAIN rows

ValidCreateBody(body) ==
    /\ {"name", "type"} \subseteq DOMAIN body
    /\ Len(body.name) >= 1 /\ Len(body.name) <= 100
    /\ body.type \in {"light", "thermostat", "camera", "sensor", "switch",
                      "speaker", "lock", "other"}

\* C2: POST /devices with a valid name and type and neither status nor config
\* answers 201 with status "offline" and config {}, and the row stored under
\* the returned id holds status 'offline' and config '{}'.
C2_PostDefaults ==
    [][\A body \in PostBodies :
        (/\ Answered(1, "POST /devices")
         /\ ValidCreateBody(body) /\ DOMAIN body = {"name", "type"}
         /\ RoutePost(1, body)) =>
            LET resp == reqs'[1].resp
            IN  /\ resp.code = 201
                /\ resp.device.status = "offline"
                /\ resp.device.config = EmptyObject
                /\ resp.device.id \in DOMAIN rows'
                /\ rows'[resp.device.id].status = "offline"
                /\ rows'[resp.device.id].config = [chars |-> <<"{", "}">>]]_vars

\* a device created from a name and a type alone has been answered and stored
C2_Witness ==
    /\ reqs[1].pc = "done" /\ reqs[1].route = "POST /devices"
    /\ reqs[1].body = [name |-> "Kitchen Light", type |-> "light"]
    /\ reqs[1].resp.code = 201
    /\ reqs[1].resp.device.id \in DOMAIN rows
    /\ rows[reqs[1].resp.device.id].status = "offline"

\* C3: no step of a PUT changes the set of rows, any field of another row,
\* or the id, name, type or created_at of its target; its update statement
\* leaves the status as it was when the body has no status and the config as
\* it was when the body has no config, and writes the fields the body has.
C3_UpdateFrame ==
    [][/\ rows' # rows =>
            /\ ~RoutePutRefetch(1)
            /\ ~\E path \in PathIds, body \in PutBodies : RoutePut(1, path, body)
       /\ (reqs[1].pc = "update" /\ RoutePutUpdate(1)) =>
            LET id == reqs[1].deviceId
                body == reqs[1].body
            IN  /\ DOMAIN rows' = DOMAIN rows
                /\ \A k \in DOMAIN rows \ {id} : rows'[k] = rows[k]
                /\ id \in DOMAIN rows =>
                    /\ rows'[id].id = rows[id].id
                    /\ rows'[id].name = rows[id].name
                    /\ rows'[id].type = rows[id].type
                    /\ rows'[id].created_at = rows[id].created_at
                    /\ rows'[id].status =
                        IF "status" \in DOMAIN body THEN body.status ELSE rows[id].status
                    /\ rows'[id].config =
                        IF "config" \in DOMAIN body THEN JSONstringify(body.config)
                        ELSE rows[id].config]_vars

\* an update of the status alone has run on a row whose config is not the default
C3_Witness ==
    /\ reqs[1].pc = "refetch"
    /\ reqs[1].body = [status |-> "off"]
    /\ reqs[1].deviceId \in DOMAIN rows
    /\ rows[reqs[1].deviceId].status = "off"
    /\ rows[reqs[1].deviceId].config = SAMPLE_DEVICES[3].config

IssuedIds == {issued[i] : i \in 1..Len(issued)}

\* C4: the delete statement of a DELETE answered 200 leaves no row of that id,
\* an id that has left the table never returns to it, and a GET of an id
\* that has no row answers 404; a DELETE of an id that has no row answers 404
\* (not 500) and changes no row.
C4_DeleteThenNotFound ==
    [][/\ (Answered(1, "DELETE /devices/:id") /\ reqs'[1].resp.code = 200
            /\ RouteDeleteRun(1)) =>
                GetDeviceById(rows', reqs[1].deviceId) = Null
       /\ \A id \in IssuedIds : id \notin DOMAIN rows => id \notin DOMAIN rows'
       /\ \A path \in PathIds :
            LET parsed == ParseInt(path)
                absent == ~InvalidDeviceId(parsed) /\ parsed.value \notin DOMAIN rows
            IN  /\ (Answered(1, "GET /devices/:id") /\ absent /\ RouteGet(1, path)) =>
                        reqs'[1].resp.code = 404
                /\ (absent /\ RouteDelete(1, path)) =>
                        /\ reqs'[1].resp.code = 404
                        /\ rows' = rows]_vars

\* a DELETE has been answered 200 and the row is gone
C4_Witness ==
    /\ reqs[1].pc = "done" /\ reqs[1].route = "DELETE /devices/:id"
    /\ reqs[1].resp.code = 200
    /\ reqs[1].resp.deleted_device.id = 3
    /\ 3 \notin DOMAIN rows

\* C5: the ids the table assigns, over creates, updates, deletes and
\* restarts, are strictly increasing in the order assigned, and every row
\* carries an id that was assigned.
C5_IdsStrictlyIncrease ==
    /\ \A i, j \in 1..Len(issued) : i < j => issued[i] < issued[j]
    /\ DOMAIN rows \subseteq IssuedIds
    /\ \A id \in DOMAIN rows : rows[id].id = id

\* the row of the largest id was deleted and a later create got a new id
C5_Witness ==
    /\ issued = <<1, 2, 3, 4>>
    /\ DOMAIN rows = {1, 2, 4}
    /\ rows[4].created_at > rows[1].created_at

\* C6: every 200 response to PUT /devices/:id carries a non-null device with
\* its config, in which each field the request submitted has the submitted
\* value.
C6_PutAnswersUpdatedRecord ==
    \A s \in Slots :
        (/\ reqs[s].pc = "done"
         /\ reqs[s].route = "PUT /devices/:id"
         /\ reqs[s].resp.code = 200) =>
            LET device == reqs[s].resp.device
                body == reqs[s].body
            IN  /\ device # Null
                /\ "config" \in DOMAIN device
                /\ "status" \in DOMAIN body => device.status = body.status
                /\ "config" \in DOMAIN body => device.config = body.config

\* C7: a POST whose type is none of the eight allowed values, and a PUT whose
\* body is the empty object, are answered 400 at once, without any call of
\* the store and with the table as it was; the 400 carries the validator's
\* message (for the PUT: when the path id is valid, the id being checked first).
C7_InvalidBodyRejected ==
    [][/\ \A body \in PostBodies :
            (/\ Holds(1, "POST /devices")
             /\ "type" \in DOMAIN body
             /\ body.type \notin {"light", "thermostat", "camera", "sensor", "switch",
                                  "speaker", "lock", "other"}
             /\ RoutePost(1, body)) =>
                /\ reqs'[1].pc = "done"
                /\ reqs'[1].resp.code = 400
                /\ reqs'[1].resp.error = "Validation failed"
                /\ reqs'[1].resp.details # ""
                /\ reqs'[1].calls = <<>>
                /\ rows' = rows /\ seq' = seq
       /\ \A path \in PathIds :
            (/\ Holds(1, "PUT /devices/:id")
             /\ reqs'[1].body = EmptyObject
             /\ RoutePut(1, path, EmptyObject)) =>
                /\ reqs'[1].pc = "done"
                /\ reqs'[1].resp.code = 400
                /\ reqs'[1].calls = <<>>
                /\ rows' = rows /\ seq' = seq
                /\ ~InvalidDeviceId(ParseInt(path)) =>
                    /\ reqs'[1].resp.error = "Validation failed"
                    /\ reqs'[1].resp.details # ""]_vars

\* a PUT of the empty object on an existing device has been answered 400
C7_Witness ==
    /\ reqs[1].pc = "done" /\ reqs[1].route = "PUT /devices/:id"
    /\ reqs[1].body = EmptyObject
    /\ reqs[1].deviceId \in DOMAIN rows
    /\ reqs[1].resp.code = 400
    /\ reqs[1].resp.error = "Validation failed"

\* the text is a positive integer: digits only, not all of them zero
PositiveIntegerText(path) ==
    /\ Len(path) >= 1
    /\ \A i \in 1..Len(path) : path[i] \in {"0", "1", "2", "3", "4", "5", "6", "7", "8", "9"}
    /\ \E i \in 1..Len(path) : path[i] # "0"

\* C8: GET, PUT and DELETE on /devices/:id with a path id that is not a
\* positive integer answer 400 "Device ID must be a positive integer" and
\* neither read nor write the store.
C8_NonIntegerIdRejected ==
    [][\A path \in PathIds :
        (/\ ~PositiveIntegerText(path)
         /\ reqs'[1].pc # "idle"
         /\ reqs'[1].path = path
         /\ \/ RouteGet(1, path)
            \/ RouteDelete(1, path)
            \/ \E body \in PutBodies : RoutePut(1, path, body)) =>
                /\ reqs'[1].pc = "done"
                /\ reqs'[1].resp.code = 400
                /\ reqs'[1].resp.message = "Device ID must be a positive integer"
                /\ reqs'[1].calls = <<>>
                /\ rows' = rows]_vars

\* C9: a GET /devices response has no config in any element of devices, and
\* its count and its devices are those of the rows in the table when it was
\* read; a 200 of GET /devices/:id has the device's config, as the object its
\* stored text parses to and not as text.
C9_ListOmitsConfigGetHasIt ==
    [][/\ (Answered(1, "GET /devices") /\ RouteList(1)) =>
            LET resp == reqs'[1].resp
            IN  /\ resp.code = 200
                /\ resp.count = Cardinality(DOMAIN rows)
                /\ Len(resp.devices) = resp.count
                /\ {resp.devices[i].id : i \in 1..Len(resp.devices)} = DOMAIN rows
                /\ \A i \in 1..Len(resp.devices) : "config" \notin DOMAIN resp.devices[i]
       /\ (Answered(1, "GET /devices/:id") /\ reqs'[1].resp.code = 200) =>
            LET device == reqs'[1].resp.device
            IN  /\ "config" \in DOMAIN device
                /\ ~IsString(device.config)
                /\ device.id \in DOMAIN rows
                /\ JSONparse(rows[device.id].config) = [error |-> "", value |-> device.config]]_vars

\* the three seeded devices have been listed
C9_Witness ==
    /\ reqs[1].pc = "done" /\ reqs[1].route = "GET /devices"
    /\ reqs[1].resp.count = 3
    /\ Cardinality(DOMAIN rows) = 3

SeedCopies(tbl, seeds, k) == {id \in DOMAIN tbl : id \in DOMAIN seeds /\ seeds[id] = k}

\* C10: init on a table that holds rows changes no row and queues no insert,
\* init never fails on the table that exists already, and whatever the
\* restarts, each of the three samples has at most one row that seeding
\* inserted.
C10_InitKeepsPopulatedStore ==
    [][/\ (phase = "tables" /\ DOMAIN rows # {}) =>
            /\ rows' = rows
            /\ pending' = <<>>
            /\ phase' \in {"tables", "ready"}
       /\ phase \in {"down", "failed", "opened", "ready"} => rows' = rows
       /\ phase' # "failed"
       /\ \A k \in 1..Len(SAMPLE_DEVICES) :
            Cardinality(SeedCopies(rows', seedOf', k)) <= 1]_vars

\* init has run again on a table holding a device a request created
C10_Witness ==
    /\ phase = "ready"
    /\ 4 \in DOMAIN rows
    /\ Cardinality(SeedCopies(rows, seedOf, 1)) = 1

\* C11: when init resolves after seeding a store that never held a row, the
\* table holds exactly the rows 1, 2 and 3, which are the light, the
\* thermostat and the camera of the samples in that order; GET /devices/1
\* then answers 200 with the light.
C11_FirstInitSeedsThree ==
    [][/\ (phase = "seeding" /\ phase' = "ready" /\ Len(issued') <= 3) =>
            /\ DOMAIN rows' = {1, 2, 3}
            /\ <<rows'[1].type, rows'[2].type, rows'[3].type>>
                    = <<"light", "thermostat", "camera">>
            /\ \A i \in 1..3 :
                /\ rows'[i].id = i
                /\ rows'[i].name = SAMPLE_DEVICES[i].name
                /\ rows'[i].status = SAMPLE_DEVICES[i].status
                /\ rows'[i].config = SAMPLE_DEVICES[i].config
       /\ (Answered(1, "GET /devices/:id") /\ reqs'[1].path = <<"1">>) =>
            /\ reqs'[1].resp.code = 200
            /\ reqs'[1].resp.device.id = 1
            /\ reqs'[1].resp.device.name = "Living Room Light"
            /\ reqs'[1].resp.device.type = "light"]_vars

\* GET /devices/1 has been answered 200 on the store as the first init left it
C11_Witness ==
    /\ reqs[1].pc = "done" /\ reqs[1].route = "GET /devices/:id"
    /\ reqs[1].path = <<"1">>
    /\ reqs[1].resp.code = 200
    /\ issued = <<1, 2, 3>>
    /\ DOMAIN rows = {1, 2, 3}

\* C12 (as stated): once three seed rows have been inserted, no later step
\* inserts a seed row.
C12_SeededOnceInLifetime ==
    [][Cardinality(DOMAIN seedOf) >= Len(SAMPLE_DEVICES) => seedOf' = seedOf]_vars

\* C12 (amended): a startup seeds exactly when the table holds no row at its
\* count: then the samples are queued in their order and each insert adds the
\* head of the queue as one new row, so that while seeding the table holds
\* rows of this seeding only; a table holding a row is left as it is.
C12_SeedsWheneverEmpty ==
    [][/\ (phase = "tables" /\ phase' # "tables") =>
            /\ phase' = "seeding" <=> DOMAIN rows = {}
            /\ phase' = "seeding" => pending' = <<1, 2, 3>>
            /\ rows' = rows /\ seedOf' = seedOf
       /\ (phase = "seeding" /\ pending' # pending) =>
            /\ pending' = Tail(pending)
            /\ DOMAIN rows' = DOMAIN rows \cup {seq'}
            /\ seq' \notin DOMAIN rows
            /\ seedOf'[seq'] = Head(pending)
            /\ rows'[seq'].name = SAMPLE_DEVICES[Head(pending)].name
       /\ phase' = "seeding" =>
            /\ \A id \in DOMAIN rows' : id \in DOMAIN seedOf'
            /\ Cardinality(DOMAIN rows') + Len(pending') = Len(SAMPLE_DEVICES)
       /\ phase # "seeding" => seedOf' = seedOf]_vars

\* a later startup is seeding again, the seeded rows having all been deleted
C12_Witness ==
    /\ phase = "seeding"
    /\ DOMAIN rows = {4}
    /\ seedOf[4] = 1
    /\ rows[4].name = "Living Room Light"

\* C13: from the close of the store to the end of the next init, each step leaves
\* getDeviceById of every device of the table as it was, timestamps included,
\* so that the devices init resolves on are those the last process left; and
\* no step, of init or of a handler, brings back an id that was issued and is
\* no longer in the table.
C13_DevicesSurviveRestart ==
    [][/\ (\/ phase \in {"down", "failed", "opened", "tables", "seeding", "ready"}
           \/ phase = "closing" /\ phase' = "down") =>
            \A id \in DOMAIN rows :
                /\ GetDeviceById(rows', id) # Null
                /\ GetDeviceById(rows', id) = GetDeviceById(rows, id)
       /\ (\/ phase \in {"down", "failed", "opened", "tables", "ready"}
           \/ phase = "closing" /\ phase' = "down") =>
            DOMAIN rows' = DOMAIN rows
       /\ \A id \in IssuedIds \ DOMAIN rows : id \notin DOMAIN rows']_vars

\* init has resolved in a later process on a table from which device 3 was
\* deleted and to which device 4 was added
C13_Witness ==
    /\ phase = "ready"
    /\ DOMAIN rows = {1, 2, 4}
    /\ rows[4].name = "Kitchen Light"
    /\ 3 \in IssuedIds

\* the step is the update statement of a PUT on slot s, and it found its row
UpdateSucceeded(s) == reqs[s].pc = "update" /\ reqs'[s].pc = "refetch"

\* C14 (as stated): every successful update leaves updated_at strictly later
\* than it was.
C14_UpdatedAtStrictlyLater ==
    [][UpdateSucceeded(1) =>
        rows'[reqs[1].deviceId].updated_at > rows[reqs[1].deviceId].updated_at]_vars

\* C14 (amended): every successful update sets updated_at to the second of
\* its statement, which is never earlier than the value the row had and is
\* strictly later exactly when the row was last written in an earlier second;
\* created_at stays.
C14_UpdatedAtIsStatementSecond ==
    [][UpdateSucceeded(1) =>
        LET id == reqs[1].deviceId
        IN  /\ rows'[id].updated_at = now
            /\ rows'[id].updated_at >= rows[id].updated_at
            /\ rows'[id].updated_at > rows[id].updated_at <=> rows[id].updated_at < now
            /\ rows'[id].created_at = rows[id].created_at]_vars

\* a device has been updated in the second it was created in
C14_Witness ==
    /\ reqs[1].pc = "refetch"
    /\ reqs[1].body = [status |-> "off"]
    /\ rows[3].status = "off"
    /\ rows[3].created_at = now
    /\ rows[3].updated_at = rows[3].created_at

\* C15 (as stated): in every GET /devices response, of any two devices the
\* one created later (the one of the larger id) comes first.
C15_LaterCreatedFirst ==
    [][(Answered(1, "GET /devices") /\ reqs'[1].resp.code = 200) =>
        LET devices == reqs'[1].resp.devices
        IN  \A i, j \in 1..Len(devices) :
                devices[i].id > devices[j].id => i < j]_vars

\* C15 (amended): in every GET /devices response the created_at values never
\* increase along the list, so that of two devices created in different
\* seconds the later one comes first; devices created in the same second
\* come in either order.
C15_OrderedByCreatedAt ==
    [][(Answered(1, "GET /devices") /\ reqs'[1].resp.code = 200) =>
        LET devices == reqs'[1].resp.devices
        IN  /\ \A i, j \in 1..Len(devices) :
                    i < j => devices[i].created_at >= devices[j].created_at
            /\ \A i, j \in 1..Len(devices) :
                    devices[i].created_at > devices[j].created_at => i < j]_vars

\* a list has a device created in a later second first, and behind it two
\* devices of one second, the one created first before the other
C15_Witness ==
    /\ reqs[1].pc = "done" /\ reqs[1].route = "GET /devices"
    /\ reqs[1].resp.count = 4
    /\ reqs[1].resp.devices[1].id = 4
    /\ reqs[1].resp.devices[1].created_at > reqs[1].resp.devices[2].created_at
    /\ reqs[1].resp.devices[2].id = 1
    /\ reqs[1].resp.devices[3].id = 2
    /\ reqs[1].resp.devices[2].created_at = reqs[1].resp.devices[3].created_at

\* C16: when a call of the store fails in a handler, the request is answered
\* at that step with 500, "Internal server error" and the fixed message of
\* its route, nothing else in the body, and no string of the response is the
\* message of the error; the step leaves the table as it was.
C16_StoreFailureIsGeneric500 ==
    [][\A error \in StoreErrors :
        (reqs'[1].pc = "done" /\ reqs'[1].calls # <<>> /\ StoreCallFails(1, error)) =>
            LET r == reqs'[1]
            IN  /\ r.resp.code = 500
                /\ DOMAIN r.resp = {"code", "error", "message"}
                /\ r.resp.error = "Internal server error"
                /\ \/ r.route = "POST /devices" /\ r.resp.message = "Failed to register device"
                   \/ r.route = "GET /devices" /\ r.resp.message = "Failed to retrieve devices"
                   \/ r.route = "GET /devices/:id" /\ r.resp.message = "Failed to retrieve device"
                   \/ r.route = "PUT /devices/:id" /\ r.resp.message = "Failed to update device"
                   \/ r.route = "DELETE /devices/:id" /\ r.resp.message = "Failed to delete device"
                /\ r.resp.error \notin StoreErrors
                /\ r.resp.message \notin StoreErrors
                /\ rows' = rows]_vars

\* the re-fetch of a PUT has failed after its update statement was run
C16_Witness ==
    /\ reqs[1].pc = "done" /\ reqs[1].route = "PUT /devices/:id"
    /\ reqs[1].calls = <<"getDeviceById", "updateDevice", "getDeviceById">>
    /\ reqs[1].resp = [code |-> 500, error |-> "Internal server error",
                       message |-> "Failed to update device"]
    /\ rows[3].status = "off"

\* C17: while the listener is closing the connection to the store is still
\* open, and the process is gone only with the connection closed (or never
\* opened).
C17_ExitAfterStoreClosed ==
    /\ phase = "closing" => conn = "open"
    /\ phase = "down" => conn \in {"none", "closed"}

\* C18: every row of the table has a name of 1 to 100 characters, one of the
\* eight types, one of the five statuses, and a config text that parses,
\* without error, to an object.
C18_StoredDevicesAreValid ==
    \A id \in DOMAIN rows :
        /\ Len(rows[id].name) >= 1
        /\ Len(rows[id].name) <= 100
        /\ rows[id].type \in {"light", "thermostat", "camera", "sensor", "switch",
                              "speaker", "lock", "other"}
        /\ rows[id].status \in {"on", "off", "online", "offline", "idle"}
        /\ IsString(rows[id].config)
        /\ JSONparse(rows[id].config).error = ""
        /\ ~IsString(JSONparse(rows[id].config).value)

\* the table holds a device a POST created and a device a PUT gave a new
\* status and a new config
C18_Witness ==
    /\ {3, 4} \subseteq DOMAIN rows
    /\ rows[4].type = "lock"
    /\ rows[3].status = "off"
    /\ rows[3].config = JSONstringify([brightness |-> "50"])

\* C19: every response carries a status code documented for its route: 201,
\* 400 or 500 for POST /devices, 200 or 500 for GET /devices, and 200, 400,
\* 404 or 500 for GET, PUT and DELETE /devices/:id.
C19_DocumentedStatusCodes ==
    \A s \in Slots :
        reqs[s].pc = "done" =>
            /\ reqs[s].route = "POST /devices" => reqs[s].resp.code \in {201, 400, 500}
            /\ reqs[s].route = "GET /devices" => reqs[s].resp.code \in {200, 500}
            /\ reqs[s].route \in {"GET /devices/:id", "PUT /devices/:id", "DELETE /devices/:id"}
                    => reqs[s].resp.code \in {200, 400, 404, 500}

\* with a PUT and a DELETE of one device in flight together, the PUT was
\* answered 404 by its update statement and the DELETE 200
C19_Witness ==
    /\ reqs[1].pc = "done" /\ reqs[1].route = "PUT /devices/:id"
    /\ reqs[1].calls = <<"getDeviceById", "updateDevice">>
    /\ reqs[1].resp.code = 404
    /\ reqs[2].pc = "done" /\ reqs[2].route = "DELETE /devices/:id"
    /\ reqs[2].resp.code = 200

\* C20: when the update statement of a PUT runs on a table that no longer
\* holds the device its existence check found, the PUT is answered at that
\* step with 404 and the body that a PUT gets whose existence check finds no
\* device, and the step changes no row, adds none and assigns no id.
C20_PutAfterDeleteIs404 ==
    [][\A s \in Slots :
        /\ (/\ reqs[s].pc = "update"
            /\ reqs[s].deviceId \notin DOMAIN rows
            /\ RoutePutUpdate(s)) =>
                /\ reqs'[s].pc = "done"
                /\ reqs'[s].calls = <<"getDeviceById", "updateDevice">>
                /\ reqs'[s].resp = [code |-> 404, error |-> "Device not found",
                                    id |-> reqs[s].deviceId]
                /\ rows' = rows
                /\ seq' = seq
        /\ (/\ reqs'[s] # reqs[s]
            /\ Answered(s, "PUT /devices/:id")
            /\ reqs'[s].calls = <<"getDeviceById">>) =>
                /\ reqs'[s].resp = [code |-> 404, error |-> "Device not found",
                                    id |-> reqs'[s].deviceId]
                /\ rows' = rows]_vars

\* a DELETE has removed the device between the existence check of a PUT and
\* its update statement, and the PUT has been answered
C20_Witness ==
    /\ reqs[2].pc = "done" /\ reqs[2].route = "PUT /devices/:id"
    /\ reqs[2].existing # Null
    /\ reqs[2].calls = <<"getDeviceById", "updateDevice">>
    /\ reqs[2].resp.code = 404
    /\ reqs[2].deviceId \notin DOMAIN rows
    /\ reqs[1].pc = "done" /\ reqs[1].route = "DELETE /devices/:id"
    /\ reqs[1].resp.code = 200

\* the PUT on slot s has run its update statement and the statement found its row
PutUpdated(s) ==
    /\ reqs[s].pc \in {"refetch", "done"}
    /\ reqs[s].route = "PUT /devices/:id"
    /\ Len(reqs[s].calls) >= 2
    /\ reqs[s].pc = "done" => reqs[s].resp.code = 200

\* C21: when a PUT of a status only and a PUT of a config only, on two
\* connections and on the same device, have both run their update statement,
\* the row holds the status of the one and the config of the other, in
\* whatever order their steps were taken.
C21_NoLostUpdate ==
    \A s, t \in Slots :
        (/\ s # t
         /\ PutUpdated(s) /\ DOMAIN reqs[s].body = {"status"}
         /\ PutUpdated(t) /\ DOMAIN reqs[t].body = {"config"}
         /\ reqs[s].deviceId = reqs[t].deviceId) =>
            LET id == reqs[s].deviceId
            IN  /\ id \in DOMAIN rows
                /\ rows[id].status = reqs[s].body.status
                /\ rows[id].config = JSONstringify(reqs[t].body.config)

\* the two PUTs overlap: both have run their update statement and neither has
\* re-fetched yet, the PUT of the config having passed its existence check
\* before the PUT of the status wrote
C21_Witness ==
    /\ reqs[1].pc = "refetch" /\ reqs[1].body = [status |-> "off"]
    /\ reqs[2].pc = "refetch" /\ reqs[2].body = [config |-> [brightness |-> "50"]]
    /\ reqs[2].existing.status = "online"
    /\ rows[3].status = "off"

\* the DELETE on slot s found its device at the existence check
DeleteFound(s) ==
    /\ reqs[s].pc \in {"delete", "done"}
    /\ reqs[s].route = "DELETE /devices/:id"
    /\ reqs[s].existing # Null

\* C22: of two DELETEs of one id on two connections, never both are answered
\* 200; when both found the device at their existence check and both are
\* answered, one is answered 200 and the other 404; and a 200 carries the id,
\* the name and the type of the device, which is no longer in the table.
C22_OneDeleteSucceeds ==
    /\ \A s, t \in Slots :
        (/\ s # t
         /\ reqs[s].pc = "done" /\ reqs[s].route = "DELETE /devices/:id"
         /\ reqs[t].pc = "done" /\ reqs[t].route = "DELETE /devices/:id"
         /\ reqs[s].deviceId = reqs[t].deviceId) =>
            /\ ~(reqs[s].resp.code = 200 /\ reqs[t].resp.code = 200)
            /\ (DeleteFound(s) /\ DeleteFound(t)) =>
                    {reqs[s].resp.code, reqs[t].resp.code} = {200, 404}
    /\ \A s \in Slots :
        (/\ reqs[s].pc = "done" /\ reqs[s].route = "DELETE /devices/:id"
         /\ reqs[s].resp.code = 200) =>
            /\ reqs[s].resp.deleted_device =
                    [id |-> reqs[s].deviceId,
                     name |-> SAMPLE_DEVICES[reqs[s].deviceId].name,
                     type |-> SAMPLE_DEVICES[reqs[s].deviceId].type]
            /\ reqs[s].deviceId \notin DOMAIN rows

\* two DELETEs of device 3 both passed their existence check; the one was
\* answered 200 and the other, its statement deleting nothing, 404
C22_Witness ==
    /\ reqs[1].pc = "done" /\ reqs[1].route = "DELETE /devices/:id"
    /\ reqs[2].pc = "done" /\ reqs[2].route = "DELETE /devices/:id"
    /\ reqs[1].resp.code = 200
    /\ reqs[2].resp.code = 404
    /\ reqs[2].calls = <<"getDeviceById", "deleteDevice">>

C24_EmptyUpdateRejects ==
    [][\A id \in StoreIds, updateData \in StoreUpdates :
        (/\ DOMAIN updateData \cap {"status", "config"} = {}
         /\ reqs'[1].pc = "done" /\ reqs'[1].route = "updateDevice"
         /\ CallUpdateDevice(1, id, updateData)) =>
            /\ reqs'[1].resp.settled = "rejected"
            /\ reqs'[1].resp.value.result \notin {"true", "null"}
            /\ rows' = rows
            /\ id \in DOMAIN rows => rows'[id].updated_at = rows[id].updated_at]_vars

\* updateDevice has rejected an object holding a name only, for a device of
\* the table created in an earlier second
C24_Witness ==
    /\ reqs[1].pc = "done" /\ reqs[1].route = "updateDevice"
    /\ reqs[1].body = [name |-> "Lamp"]
    /\ reqs[1].deviceId \in DOMAIN rows
    /\ reqs[1].resp.settled = "rejected"
    /\ rows[reqs[1].deviceId].updated_at < now

\* C25: an updateDevice that supplies a config and finds its row leaves as
\* the stored config the text of the submitted object alone, with no key of
\* the config the row had unless the submitted object has it, and
\* getDeviceById on the table it leaves returns a config equal to the
\* submitted object; getDeviceById returns the stored text parsed.
C25_ConfigReplacedWhole ==
    [][/\ \A id \in StoreIds, updateData \in StoreUpdates :
            (/\ "config" \in DOMAIN updateData
             /\ id \in DOMAIN rows
             /\ reqs'[1].pc = "done" /\ reqs'[1].route = "updateDevice"
             /\ CallUpdateDevice(1, id, updateData)) =>
                /\ reqs'[1].resp.settled = "resolved"
                /\ rows'[id].config = JSONstringify(updateData.config)
                /\ GetDeviceById(rows', id).config = updateData.config
                /\ DOMAIN GetDeviceById(rows', id).config = DOMAIN updateData.config
                /\ rows'[id].status = rows[id].status
       /\ \A id \in StoreIds :
            (/\ reqs'[1].pc = "done" /\ reqs'[1].route = "getDeviceById"
             /\ id \in DOMAIN rows
             /\ CallGetDeviceById(1, id)) =>
                /\ ~IsString(reqs'[1].resp.value.config)
                /\ JSONstringify(reqs'[1].resp.value.config) = rows[id].config]_vars

\* the config of the camera has been replaced by an object of one other key
C25_Witness ==
    /\ reqs[1].pc = "done" /\ reqs[1].route = "updateDevice"
    /\ reqs[1].body = [config |-> [brightness |-> "50"]]
    /\ reqs[1].deviceId = 3
    /\ DOMAIN JSONparse(rows[3].config).value = {"brightness"}

\* C26: the process listens only from the step that follows a resolved init,
\* init resolves only with the table created and no insert of the seeding
\* left to run, a request is taken only while the process listens, and a
\* failed init ends the process, which never listens in that run.
C26_ListenAfterInit ==
    [][/\ (phase' = "listening" /\ phase # "listening") => phase = "ready"
       /\ (phase' = "ready" /\ phase # "ready") =>
            /\ phase \in {"tables", "seeding"}
            /\ tableExists'
            /\ pending = <<>> /\ pending' = <<>>
            /\ phase = "tables" => DOMAIN rows # {}
            /\ phase = "seeding" => Cardinality(DOMAIN rows') >= Len(SAMPLE_DEVICES)
       /\ (reqs'[1] # reqs[1] /\ reqs'[1].pc # "idle") => phase \in {"listening", "closing"}
       /\ (reqs'[1] # reqs[1] /\ reqs'[1].pc = "done" /\ reqs'[1].calls = <<>>
                /\ reqs[1].pc \in {"idle", "done"}) => phase = "listening"
       /\ phase = "failed" => phase' \in {"failed", "opened"}
       /\ (phase' = "failed" /\ phase # "failed") =>
            /\ phase \in {"opened", "tables", "seeding"}
            /\ rows' = rows
            /\ \A s \in Slots : reqs'[s].pc = "idle"]_vars

\* init has failed in the middle of the seeding, and the process is gone
\* without having handled a request
C26_Witness ==
    /\ phase = "failed"
    /\ Cardinality(DOMAIN rows) = 1
    /\ reqs[1].pc = "idle"

\* C27: init seeds at most once per store: a call of init made once a call
\* has completed changes nothing, and once no call of init is in progress the
\* store first found empty holds exactly the three sample rows, also when two
\* calls have overlapped.
C27_InitSeedsOnce ==
    [][/\ \A s \in Slots :
            (IsInitialized /\ CallInit(s)) =>
                /\ rows' = rows
                /\ reqs'[s].resp.settled = "resolved"
       /\ (\A s \in Slots : reqs'[s].pc = "done") =>
            /\ Cardinality(DOMAIN rows') = Len(SAMPLE_DEVICES)
            /\ \A i \in 1..Len(SAMPLE_DEVICES) : Cardinality(SeedCopies(rows', seedOf', i)) = 1]_vars

\* C28: close called in any state of the store, before any init or again
\* after a close included, settles by resolving, never by rejecting, and
\* changes no row of the table.
C28_CloseIsSafe ==
    [][CallClose(1) =>
            /\ reqs'[1].resp.settled = "resolved"
            /\ rows' = rows
            /\ seq' = seq
            /\ tableExists' = tableExists
            /\ conn' \in {"none", "closed"}
            /\ conn = "none" => (conn' = "none" /\ phase' = phase)]_vars

\* close has been called on the store that a close had closed already, the
\* seeded rows being in the table
C28_Witness ==
    /\ reqs[1].pc = "done"
    /\ reqs[1].route = "close"
    /\ reqs[1].resp.value.error
    /\ conn = "closed"
    /\ Cardinality(DOMAIN rows) >= Len(SAMPLE_DEVICES)

\* C29: on every call the router makes (createDevice with a name, a type, a
\* status and a JSON text as config; getAllDevices; getDeviceById,
\* updateDevice and deleteDevice with a positive integer id, the update
\* holding status and/or config), the minimal store, started from the table
\* the decorated store starts from, settles the same way with the same value
\* and leaves the same table.
C29_StoresEquivalent ==
    [][/\ \A deviceData \in RouterCreateData :
            CallCreateDevice(1, deviceData) =>
                /\ reqs'[1].resp.settled = "resolved"
                /\ reqs'[1].resp.value = MinimalCreateDeviceResult(rows, seq, deviceData)
                /\ rows' = MinimalCreateDevice(rows, seq, now, deviceData)
       /\ CallGetAllDevices(1) =>
            /\ reqs'[1].resp.settled = "resolved"
            /\ {GetAllDevices(rows, order) : order \in SelectAllOrders(rows)}
                = {MinimalGetAllDevices(rows, order) : order \in SelectAllOrders(rows)}
            /\ \E order \in SelectAllOrders(rows) :
                    reqs'[1].resp.value = MinimalGetAllDevices(rows, order)
       /\ \A id \in StoreIds :
            /\ CallGetDeviceById(1, id) =>
                /\ reqs'[1].resp.settled = "resolved"
                /\ reqs'[1].resp.value = MinimalGetDeviceById(rows, id)
            /\ CallDeleteDevice(1, id) =>
                /\ reqs'[1].resp.settled = "resolved"
                /\ reqs'[1].resp.value.result = MinimalDeleteDeviceResult(rows, id)
                /\ rows' = MinimalDeleteDevice(rows, id)
            /\ \A updateData \in RouterUpdates :
                CallUpdateDevice(1, id, updateData) =>
                    /\ reqs'[1].resp.settled = "resolved"
                    /\ reqs'[1].resp.value.result = MinimalUpdateDeviceResult(rows, id, updateData)
                    /\ rows' = MinimalUpdateDevice(rows, now, id, updateData)]_vars

\* updateDevice with a status and a config has updated a device that
\* createDevice had inserted
C29_Witness ==
    /\ reqs[1].pc = "done"
    /\ reqs[1].route = "updateDevice"
    /\ reqs[1].deviceId = 4
    /\ reqs[1].resp.value.result = "true"
    /\ DOMAIN reqs[1].body = {"status", "config"}
    /\ 4 \in DOMAIN rows
    /\ 4 \notin DOMAIN seedOf

\* C30: every request to the five routes gets exactly one response: a request
\* being handled has been sent none, an answered one has been sent one and
\* never more, and, every store callback firing eventually, a request whose
\* handler waits for the store is answered in the end.
C30_ExactlyOneResponse ==
    /\ [](\A s \in Slots :
            reqs[s].pc # "idle" =>
                /\ reqs[s].sent = (IF reqs[s].pc = "done" THEN 1 ELSE 0)
                /\ reqs[s].pc = "done" <=> reqs[s].resp # Null)
    /\ \A s \in Slots :
            (reqs[s].pc \in {"update", "refetch", "delete"}) ~> (reqs[s].pc = "done")

\* a PUT that has gone through its three store calls is answered, once,
\* while a DELETE on the other connection is answered too
C30_Witness ==
    /\ reqs[1].pc = "done"
    /\ reqs[1].calls = <<"getDeviceById", "updateDevice", "getDeviceById">>
    /\ reqs[1].sent = 1
    /\ reqs[2].pc = "done"
    /\ reqs[2].route = "DELETE /devices/:id"
    /\ reqs[2].sent = 1

====
